---- MODULE Spec2Model ----
(***************************************************************************)
(* Model of oracle_kiosk.py: a Streamlit script that is re-executed from   *)
(* top to bottom on every user interaction.  One action of the model is    *)
(* one script run: the widget values of the interaction are applied, the   *)
(* session-state defaults are filled in, the submit handler runs, the      *)
(* audience or admin panel is rendered (the admin panel instantiates the   *)
(* text area keyed "oracle_text_edit" and then runs the Regenerate and     *)
(* Approve handlers), and the framework drops the state of keyed widgets   *)
(* that were not instantiated in the run.                                  *)
(***************************************************************************)
EXTENDS Integers, Sequences, FiniteSets, TLC

\* ------------------------------------------------------------------ bounds
MaxLen == 2

\* ------------------------------------------------------------- value sets
\* Texts are sequences of characters; " " is whitespace, "a" is not.
Chars == {" ", "a"}
Strings == UNION {[1..n -> Chars] : n \in 0..MaxLen}
EmptyStr == <<>>

\* What the operator types into the text area: nothing, whitespace only, or a
\* text of their own.
EditInputs == {<<>>, <<" ">>, <<"a">>}

\* Python None for audio_bytes, and the opaque MP3 blobs r.content can be.
None == "None"
Blobs == {"MP3DATA!!", "MP3DATA??"}

\* Durations time.time() - t0 can measure for a vendor call, in seconds.
ScanTimes == {1, 2}

\* Values of the configuration inputs: "" is an unset key.
OpenAiKeys == {"", "sk-test"}
ElevenKeys == {"", "xi-test"}
VoiceIds == {"", "voice-1"}
ModelNames == {"", "gpt-4o-mini"}
DefaultModel == "gpt-4o-mini"

\* The form as first rendered (empty fields, birthday "not provided", first
\* radio option), and the forms an operator submits: the untouched one and a
\* filled-in one whose birthday was cleared.
DefaultForm ==
    [name |-> "", occupation |-> "", detail |-> "", birthday |-> "not provided",
     length |-> "short"]
FormInputs ==
    { DefaultForm,
      [name |-> "Ada", occupation |-> "Engineer", detail |-> "loves trains",
       birthday |-> "", length |-> "long"] }

\* What the two vendor endpoints can answer.
GenResponses ==
    {[status |-> "http_error"], [status |-> "malformed"]}
        \cup {[status |-> "ok", content |-> c] : c \in Strings}
TtsResponses ==
    {[status |-> "http_error"]} \cup {[status |-> "ok", content |-> b] : b \in Blobs}

\* ------------------------------------------------------------------ state
VARIABLES
    OPENAI_API_KEY,     \* configuration, read when the script starts
    ELEVEN_API_KEY,
    ELEVEN_VOICE_ID,
    keyIdentity,        \* framework build: TRUE when a keyed widget keeps its
                        \* state although its value= argument changes
    audience_mode,      \* settings widgets
    model_name,
    voice_id,
    form,               \* the form's fields as of the last "Begin Scan" click
    session_state,      \* st.session_state: a function from the keys present
    text_area_arg,      \* value= argument the text area was last instantiated
                        \* with (EmptyStr when it is not on the page)
    run,                \* what the last script run did (trigger, calls, error)
    age,                \* script runs since the session was created:
                        \* "new", "first", "second" or "later"
    sessions,           \* the server's table of browser sessions: for each
                        \* session id its widget values and st.session_state
    alone               \* for each session id, the state that session has
                        \* when its own runs are the only ones executed

vars == <<OPENAI_API_KEY, ELEVEN_API_KEY, ELEVEN_VOICE_ID, keyIdentity,
          audience_mode, model_name, voice_id, form, session_state,
          text_area_arg, run, age, sessions, alone>>

server == <<sessions, alone>>

config == <<OPENAI_API_KEY, ELEVEN_API_KEY, ELEVEN_VOICE_ID, keyIdentity>>

\* ------------------------------------------------- session-state dictionary
EDIT == "oracle_text_edit"

HasKey(ss, k) == k \in DOMAIN ss
SetKey(ss, k, v) == [x \in DOMAIN ss \cup {k} |-> IF x = k THEN v ELSE ss[x]]
DelKey(ss, k) == [x \in DOMAIN ss \ {k} |-> ss[x]]
EmptySessionState == [x \in {} |-> None]

\* Variant of InitSessionState: the scan-time default is a clock reading
\* instead of a zero duration.
InitSessionState_ClockDefault(ss) ==
    LET s1 == IF HasKey(ss, "oracle_text") THEN ss ELSE SetKey(ss, "oracle_text", EmptyStr)
        s2 == IF HasKey(s1, "audio_bytes") THEN s1 ELSE SetKey(s1, "audio_bytes", None)
        s3 == IF HasKey(s2, "scan_time") THEN s2 ELSE SetKey(s2, "scan_time", 1)
    IN  s3

\* `if "k" not in st.session_state: st.session_state["k"] = default`
InitSessionState(ss) ==
    LET s1 == IF HasKey(ss, "oracle_text") THEN ss ELSE SetKey(ss, "oracle_text", EmptyStr)
        s2 == IF HasKey(s1, "audio_bytes") THEN s1 ELSE SetKey(s1, "audio_bytes", None)
        s3 == IF HasKey(s2, "scan_time") THEN s2 ELSE SetKey(s2, "scan_time", 0)
    IN  s3

\* st.session_state[k] = v raises StreamlitAPIException when the widget keyed
\* k has already been instantiated in the current script run.
SetItem(ss, k, v, instantiated) ==
    IF k \in instantiated
    THEN [raised |-> TRUE, ss |-> ss]
    ELSE [raised |-> FALSE, ss |-> SetKey(ss, k, v)]

\* ---------------------------------------------------------- pure functions
RECURSIVE LStrip(_)
LStrip(s) == IF Len(s) > 0 /\ Head(s) = " " THEN LStrip(Tail(s)) ELSE s

RECURSIVE RStrip(_)
RStrip(s) == IF Len(s) > 0 /\ s[Len(s)] = " " THEN RStrip(SubSeq(s, 1, Len(s) - 1)) ELSE s

\* str.strip()
Strip(s) == RStrip(LStrip(s))

\* `x or "not provided"`
OrNotProvided(x) == IF x = "" THEN "not provided" ELSE x

NoCall == [called |-> FALSE]

\* generate_oracle_text: build the request, post it, raise on a non-2xx or
\* malformed answer, else return the stripped content.
generate_oracle_text(name, occupation, detail, birthday, length, model, key, resp) ==
    LET request == [model |-> model, key |-> key,
                    name |-> OrNotProvided(name),
                    occupation |-> OrNotProvided(occupation),
                    detail |-> OrNotProvided(detail),
                    birthday |-> OrNotProvided(birthday),
                    length |-> length]
    IN  IF resp.status = "ok"
        THEN [called |-> TRUE, request |-> request, raised |-> FALSE,
              value |-> Strip(resp.content)]
        ELSE [called |-> TRUE, request |-> request, raised |-> TRUE,
              value |-> EmptyStr]

\* elevenlabs_tts: post the text, raise on a non-2xx answer, else return the bytes.
elevenlabs_tts(text, voice, key, resp) ==
    IF resp.status = "ok"
    THEN [called |-> TRUE, text |-> text, voice |-> voice, key |-> key,
          raised |-> FALSE, value |-> resp.content]
    ELSE [called |-> TRUE, text |-> text, voice |-> voice, key |-> key,
          raised |-> TRUE, value |-> None]

\* -------------------------------------------------------------- handlers
\* Variant of SubmitHandler: the previous audio is reset before the call
\* instead of after it.
SubmitHandler_ResetsAudioFirst(ss, f, model, key, resp, dur) ==
    IF key = "" \/ model = ""
    THEN [ss |-> ss, gen |-> NoCall, error |-> "config"]
    ELSE LET g == generate_oracle_text(f.name, f.occupation, f.detail, f.birthday,
                                       f.length, model, key, resp)
             s1 == [ss EXCEPT !.audio_bytes = None]
         IN  IF g.raised
             THEN [ss |-> s1, gen |-> g, error |-> "exception"]
             ELSE [ss |-> [s1 EXCEPT !.oracle_text = g.value, !.scan_time = dur],
                   gen |-> g, error |-> "none"]

\* `if submitted:` block.  Returns the session state it leaves, the generator
\* call it made and the message it showed.
SubmitHandler(ss, f, model, key, resp, dur) ==
    IF key = "" \/ model = ""
    THEN [ss |-> ss, gen |-> NoCall, error |-> "config"]
    ELSE LET g == generate_oracle_text(f.name, f.occupation, f.detail, f.birthday,
                                       f.length, model, key, resp)
         IN  IF g.raised
             THEN [ss |-> ss, gen |-> g, error |-> "exception"]
             ELSE [ss |-> [ss EXCEPT !.oracle_text = g.value,
                                     !.audio_bytes = None,
                                     !.scan_time = dur],
                   gen |-> g, error |-> "none"]

\* Value of st.text_area(value=oracle_text, key="oracle_text_edit") when it is
\* instantiated: the stored widget state, or the value= argument when the
\* widget is new (no stored state, or a widget identity derived from its
\* arguments and a changed argument).
TextAreaValue(ss, prevArg, keyId) ==
    IF ~HasKey(ss, EDIT) THEN ss.oracle_text
    ELSE IF ~keyId /\ prevArg # ss.oracle_text THEN ss.oracle_text
    ELSE ss[EDIT]

\* Variant of AdminPanelShown: the admin controls are drawn without the
\* `if st.session_state["oracle_text"]` test.
AdminPanelShown_IgnoresText(ss, aud) == ~aud

\* `if audience_mode: ... else: if oracle_text: st.text_area(...)`
AdminPanelShown(ss, aud) == ~aud /\ Len(ss.oracle_text) > 0

\* Rendering of the panels up to the text area.
RenderPanels(ss, aud, prevArg, keyId) ==
    IF AdminPanelShown(ss, aud)
    THEN SetKey(ss, EDIT, TextAreaValue(ss, prevArg, keyId))
    ELSE ss

\* End of the script run: state of a keyed widget that was not instantiated
\* is removed; the text area's value= argument of this run is remembered.
Cleanup(ss, shown) == IF shown THEN ss ELSE DelKey(ss, EDIT)
NextTextAreaArg(ssAtRender, aud) ==
    IF AdminPanelShown(ssAtRender, aud) THEN ssAtRender.oracle_text ELSE EmptyStr

\* `if st.button("Regenerate"):` block; the text area is already instantiated.
RegenerateHandler(ss, f, model, key, resp, dur) ==
    LET g == generate_oracle_text(f.name, f.occupation, f.detail, f.birthday,
                                  f.length, model, key, resp)
    IN  IF g.raised
        THEN [ss |-> ss, gen |-> g, error |-> "exception"]
        ELSE LET s1 == [ss EXCEPT !.oracle_text = g.value]
                 w == SetItem(s1, EDIT, g.value, {EDIT})
             IN  IF w.raised
                 THEN [ss |-> s1, gen |-> g, error |-> "exception"]
                 ELSE [ss |-> [w.ss EXCEPT !.audio_bytes = None, !.scan_time = dur],
                       gen |-> g, error |-> "none"]

\* Variant of TextForTts: the operator's edit is ignored.
TextForTts_IgnoresEdit(ss) == ss.oracle_text

\* `st.session_state.get("oracle_text_edit") or st.session_state["oracle_text"]`
TextForTts(ss) ==
    IF HasKey(ss, EDIT) /\ Len(ss[EDIT]) > 0 THEN ss[EDIT] ELSE ss.oracle_text

\* `if not ELEVEN_API_KEY and not voice_id:`
ApproveConfigMissing(elevenKey, voice) == elevenKey = "" /\ voice = ""

\* `voice_id or ELEVEN_VOICE_ID`
VoiceFor(voice, defaultVoice) == IF voice # "" THEN voice ELSE defaultVoice

\* Variant of ApproveHandler: the except branch clears the audio.
ApproveHandler_ClearsAudioOnFailure(ss, voice, defaultVoice, elevenKey, resp) ==
    IF ApproveConfigMissing(elevenKey, voice)
    THEN [ss |-> ss, tts |-> NoCall, error |-> "config"]
    ELSE LET t == elevenlabs_tts(TextForTts(ss), VoiceFor(voice, defaultVoice),
                                 elevenKey, resp)
         IN  IF t.raised
             THEN [ss |-> [ss EXCEPT !.audio_bytes = None], tts |-> t,
                   error |-> "exception"]
             ELSE [ss |-> [ss EXCEPT !.audio_bytes = t.value],
                   tts |-> t, error |-> "none"]

\* Variant of ApproveHandler: the returned bytes are not stored.
ApproveHandler_DropsAudio(ss, voice, defaultVoice, elevenKey, resp) ==
    IF ApproveConfigMissing(elevenKey, voice)
    THEN [ss |-> ss, tts |-> NoCall, error |-> "config"]
    ELSE LET t == elevenlabs_tts(TextForTts(ss), VoiceFor(voice, defaultVoice),
                                 elevenKey, resp)
         IN  [ss |-> ss, tts |-> t,
              error |-> IF t.raised THEN "exception" ELSE "none"]

\* `if approve:` block.
ApproveHandler(ss, voice, defaultVoice, elevenKey, resp) ==
    IF ApproveConfigMissing(elevenKey, voice)
    THEN [ss |-> ss, tts |-> NoCall, error |-> "config"]
    ELSE LET t == elevenlabs_tts(TextForTts(ss), VoiceFor(voice, defaultVoice),
                                 elevenKey, resp)
         IN  IF t.raised
             THEN [ss |-> ss, tts |-> t, error |-> "exception"]
             ELSE [ss |-> [ss EXCEPT !.audio_bytes = t.value],
                   tts |-> t, error |-> "none"]

\* ------------------------------------------------------- browser sessions
SessionIds == {"admin", "audience"}

\* A browser session before its first interaction.
NewSession ==
    [audience_mode |-> FALSE, form |-> DefaultForm,
     session_state |-> InitSessionState(EmptySessionState),
     text_area_arg |-> EmptyStr]

\* ------------------------------------------------------------------ Init
Init ==
    /\ OPENAI_API_KEY \in OpenAiKeys
    /\ ELEVEN_API_KEY \in ElevenKeys
    /\ ELEVEN_VOICE_ID \in VoiceIds
    /\ keyIdentity \in BOOLEAN
    /\ audience_mode = FALSE
    /\ model_name = DefaultModel
    /\ voice_id = ELEVEN_VOICE_ID
    /\ form = DefaultForm
    /\ session_state = InitSessionState(EmptySessionState)
    /\ text_area_arg = EmptyStr
    /\ run = [trigger |-> "none", gen |-> NoCall, tts |-> NoCall, error |-> "none"]
    /\ age = "new"
    /\ sessions = [s \in SessionIds |-> NewSession]
    /\ alone = [s \in SessionIds |-> NewSession]

Tick ==
    CASE age = "new" -> "first"
      [] age = "first" -> "second"
      [] OTHER -> "later"

\* A script run in which no handler fires: widget values in, panels rendered.
Rerun(trigger, ssIn, aud) ==
    LET s0 == InitSessionState(ssIn)
        s1 == RenderPanels(s0, aud, text_area_arg, keyIdentity)
    IN  /\ session_state' = Cleanup(s1, AdminPanelShown(s0, aud))
        /\ text_area_arg' = NextTextAreaArg(s0, aud)
        /\ run' = [trigger |-> trigger, gen |-> NoCall, tts |-> NoCall, error |-> "none"]
        /\ age' = Tick

\* ---------------------------------------------------------------- actions
\* "Begin Scan" with the form filled in as f.
Submit(f, resp, dur) ==
    LET s0 == InitSessionState(session_state)
        h == SubmitHandler(s0, f, model_name, OPENAI_API_KEY, resp, dur)
        s1 == RenderPanels(h.ss, audience_mode, text_area_arg, keyIdentity)
    IN  /\ form' = f
        /\ session_state' = Cleanup(s1, AdminPanelShown(h.ss, audience_mode))
        /\ text_area_arg' = NextTextAreaArg(h.ss, audience_mode)
        /\ run' = [trigger |-> "submit", gen |-> h.gen, tts |-> NoCall, error |-> h.error]
        /\ age' = Tick
        /\ UNCHANGED <<config, server, audience_mode, model_name, voice_id>>

\* Variant of EditText: the text area is bound to the key "oracle_text", so an
\* edit overwrites the generated text.
EditText_OverwritesGenerated(v) ==
    /\ HasKey(session_state, EDIT)
    /\ v # session_state[EDIT]
    /\ Rerun("edit", SetKey(SetKey(session_state, EDIT, v), "oracle_text", v),
             audience_mode)
    /\ UNCHANGED <<config, server, audience_mode, model_name, voice_id, form>>

\* The operator changes the text area on the page.
EditText(v) ==
    /\ HasKey(session_state, EDIT)
    /\ v # session_state[EDIT]
    /\ Rerun("edit", SetKey(session_state, EDIT, v), audience_mode)
    /\ UNCHANGED <<config, server, audience_mode, model_name, voice_id, form>>

\* A click on a button of the admin panel.  The page still shows the panel of
\* the previous run; the handler runs only when this run draws the button again.
\* "Regenerate" button.
Regenerate(resp, dur) ==
    /\ HasKey(session_state, EDIT)
    /\ LET s0 == InitSessionState(session_state)
           shown == AdminPanelShown(s0, audience_mode)
           s1 == RenderPanels(s0, audience_mode, text_area_arg, keyIdentity)
           h == IF shown
                THEN RegenerateHandler(s1, form, model_name, OPENAI_API_KEY, resp, dur)
                ELSE [ss |-> s1, gen |-> NoCall, error |-> "none"]
       IN  /\ session_state' = Cleanup(h.ss, shown)
           /\ text_area_arg' = NextTextAreaArg(s0, audience_mode)
           /\ run' = [trigger |-> IF shown THEN "regenerate" ELSE "stale_click",
                      gen |-> h.gen, tts |-> NoCall, error |-> h.error]
           /\ age' = Tick
    /\ UNCHANGED <<config, server, audience_mode, model_name, voice_id, form>>

\* "Approve -> Generate Voice" button.
Approve(resp) ==
    /\ HasKey(session_state, EDIT)
    /\ LET s0 == InitSessionState(session_state)
           shown == AdminPanelShown(s0, audience_mode)
           s1 == RenderPanels(s0, audience_mode, text_area_arg, keyIdentity)
           h == IF shown
                THEN ApproveHandler(s1, voice_id, ELEVEN_VOICE_ID, ELEVEN_API_KEY, resp)
                ELSE [ss |-> s1, tts |-> NoCall, error |-> "none"]
       IN  /\ session_state' = Cleanup(h.ss, shown)
           /\ text_area_arg' = NextTextAreaArg(s0, audience_mode)
           /\ run' = [trigger |-> IF shown THEN "approve" ELSE "stale_click",
                      gen |-> NoCall, tts |-> h.tts, error |-> h.error]
           /\ age' = Tick
    /\ UNCHANGED <<config, server, audience_mode, model_name, voice_id, form>>

\* "Audience Mode" toggle.
ToggleAudience ==
    /\ audience_mode' = ~audience_mode
    /\ Rerun("settings", session_state, ~audience_mode)
    /\ UNCHANGED <<config, server, model_name, voice_id, form>>

\* "OpenAI Model" text input.
SetModelName(m) ==
    /\ m # model_name
    /\ model_name' = m
    /\ Rerun("settings", session_state, audience_mode)
    /\ UNCHANGED <<config, server, audience_mode, voice_id, form>>

\* "ElevenLabs Voice ID" text input.
SetVoiceId(v) ==
    /\ v # voice_id
    /\ voice_id' = v
    /\ Rerun("settings", session_state, audience_mode)
    /\ UNCHANGED <<config, server, audience_mode, model_name, form>>

\* Reset: every session-state field is cleared and the script runs again.
Reset ==
    /\ Rerun("reset", EmptySessionState, audience_mode)
    /\ UNCHANGED <<config, server, audience_mode, model_name, voice_id, form>>

Next ==
    \/ \E f \in FormInputs, resp \in GenResponses, dur \in ScanTimes :
          Submit(f, resp, dur)
    \/ \E v \in EditInputs : EditText(v)
    \/ \E resp \in GenResponses, dur \in ScanTimes : Regenerate(resp, dur)
    \/ \E resp \in TtsResponses : Approve(resp)
    \/ ToggleAudience
    \/ \E m \in ModelNames : SetModelName(m)
    \/ \E v \in VoiceIds : SetVoiceId(v)
    \/ Reset

Spec == Init /\ [][Next]_vars

\* ------------------------------------------------ two concurrent sessions
\* The server runs the same script for every browser session; a script run
\* reads and writes the st.session_state of the session that triggered it.
\* The settings widgets of these sessions stay at their defaults.
single == <<audience_mode, model_name, voice_id, form, session_state,
            text_area_arg, run, age>>

SessionScanTime == 1
SessionGenResponses == {r \in GenResponses : r.status = "ok" => Len(r.content) <= 1}

\* Variant of StoreWrite: st.session_state is one dictionary shared by all
\* sessions of the server.
StoreWrite_Shared(store, sid, sess) == [s \in DOMAIN store |-> sess]

\* The script run of session sid leaves its state in that session's entry.
StoreWrite(store, sid, sess) == [store EXCEPT ![sid] = sess]

\* One script run of a session: the session after the run, from the session
\* before it and the interaction ev that triggered the run.
ScriptRun(sess, ev) ==
    LET aud == IF ev.kind = "toggle" THEN ~sess.audience_mode ELSE sess.audience_mode
        f == IF ev.kind = "submit" THEN ev.form ELSE sess.form
        ssIn == IF ev.kind = "edit"
                THEN SetKey(sess.session_state, EDIT, ev.text)
                ELSE sess.session_state
        s0 == InitSessionState(ssIn)
        sAtRender == IF ev.kind = "submit"
                     THEN SubmitHandler(s0, f, DefaultModel, OPENAI_API_KEY,
                                        ev.resp, SessionScanTime).ss
                     ELSE s0
        shown == AdminPanelShown(sAtRender, aud)
        s1 == RenderPanels(sAtRender, aud, sess.text_area_arg, keyIdentity)
        s2 == IF shown /\ ev.kind = "regenerate"
              THEN RegenerateHandler(s1, f, DefaultModel, OPENAI_API_KEY,
                                     ev.resp, SessionScanTime).ss
              ELSE IF shown /\ ev.kind = "approve"
              THEN ApproveHandler(s1, ELEVEN_VOICE_ID, ELEVEN_VOICE_ID,
                                  ELEVEN_API_KEY, ev.resp).ss
              ELSE s1
    IN  [audience_mode |-> aud, form |-> f,
         session_state |-> Cleanup(s2, shown),
         text_area_arg |-> NextTextAreaArg(sAtRender, aud)]

\* Session sid runs the script for interaction ev.
SessionEvent(sid, ev) ==
    /\ sessions' = StoreWrite(sessions, sid, ScriptRun(sessions[sid], ev))
    /\ alone' = [alone EXCEPT ![sid] = ScriptRun(alone[sid], ev)]
    /\ UNCHANGED <<config, single>>

\* The form is drawn in both views, so either window can start a scan.
SessionSubmit(sid, f, resp) ==
    /\ sid \in SessionIds
    /\ SessionEvent(sid, [kind |-> "submit", form |-> f, resp |-> resp])

SessionEditText(sid, v) ==
    /\ HasKey(sessions[sid].session_state, EDIT)
    /\ v # sessions[sid].session_state[EDIT]
    /\ SessionEvent(sid, [kind |-> "edit", text |-> v])

SessionRegenerate(sid, resp) ==
    /\ HasKey(sessions[sid].session_state, EDIT)
    /\ SessionEvent(sid, [kind |-> "regenerate", resp |-> resp])

SessionApprove(sid, resp) ==
    /\ HasKey(sessions[sid].session_state, EDIT)
    /\ SessionEvent(sid, [kind |-> "approve", resp |-> resp])

SessionToggleAudience(sid) ==
    /\ sid \in SessionIds
    /\ SessionEvent(sid, [kind |-> "toggle"])

InitSessions ==
    /\ Init
    /\ OPENAI_API_KEY = "sk-test"
    /\ ELEVEN_API_KEY = "xi-test"
    /\ ELEVEN_VOICE_ID = "voice-1"

NextSessions ==
    \/ \E sid \in SessionIds, f \in FormInputs, resp \in SessionGenResponses :
          SessionSubmit(sid, f, resp)
    \/ \E sid \in SessionIds, v \in EditInputs : SessionEditText(sid, v)
    \/ \E sid \in SessionIds, resp \in SessionGenResponses : SessionRegenerate(sid, resp)
    \/ \E sid \in SessionIds, resp \in TtsResponses : SessionApprove(sid, resp)
    \/ \E sid \in SessionIds : SessionToggleAudience(sid)

SpecSessions == InitSessions /\ [][NextSessions]_vars

\* ------------------------------------------------------------- vocabulary
generatedText == session_state.oracle_text
audio == session_state.audio_bytes
HasEdited == HasKey(session_state, EDIT)

\* The workflow state a session state stands for.
WorkflowState(ss) ==
    IF Len(ss.oracle_text) = 0 THEN "Idle"
    ELSE IF ss.audio_bytes = None THEN "Reviewing"
    ELSE "Ready"

GenSucceeded(r) == r.gen.called /\ ~r.gen.raised
GenFailed(r) == r.gen.called /\ r.gen.raised
TtsSucceeded(r) == r.tts.called /\ ~r.tts.raised
TtsFailed(r) == r.tts.called /\ r.tts.raised

\* ------------------------------------------------------------------ claims

\* C1: after every regenerate whose Text Generator call returned a string,
\* audio is unset.
C1_RegenerateClearsAudio ==
    (run.trigger = "regenerate" /\ GenSucceeded(run)) => audio = None

C3_FailedGenerationKeepsState ==
    [][ (run'.trigger \in {"submit", "regenerate"} /\ GenFailed(run')) =>
            /\ session_state'.oracle_text = session_state.oracle_text
            /\ session_state'.audio_bytes = session_state.audio_bytes
            /\ WorkflowState(session_state') = WorkflowState(session_state) ]_vars

\* C3 witness: a regenerate failed while audio of the current reading was set.
C3_Witness ==
    /\ run.trigger = "regenerate" /\ GenFailed(run)
    /\ WorkflowState(session_state) = "Ready"

\* C4: every submit-scan whose Text Generator call returned ends in Reviewing
\* with a non-empty generatedText and audio unset.
C4_SuccessfulScanNonEmpty ==
    (run.trigger = "submit" /\ GenSucceeded(run)) =>
        /\ Len(generatedText) > 0
        /\ audio = None
        /\ WorkflowState(session_state) = "Reviewing"

\* C5: an edit of the text area calls neither vendor and leaves generatedText,
\* audio and the scan duration as they were.
C5_EditChangesOnlyEditedText ==
    [][ run'.trigger = "edit" =>
            /\ ~run'.gen.called
            /\ ~run'.tts.called
            /\ session_state'.oracle_text = session_state.oracle_text
            /\ session_state'.audio_bytes = session_state.audio_bytes
            /\ session_state'.scan_time = session_state.scan_time ]_vars

\* C5 witness: an edit was made in Ready and the edited text differs from
\* generatedText.
C5_Witness ==
    /\ run.trigger = "edit"
    /\ HasEdited /\ session_state[EDIT] # generatedText
    /\ audio # None

\* C6: approve-synthesize makes no Speech Synthesizer call while the synthesis
\* API key is absent or no voice identifier is available; it reports a
\* configuration error instead.
C6_NoSynthesisWithoutCredentials ==
    (run.trigger = "approve"
        /\ (ELEVEN_API_KEY = "" \/ (voice_id = "" /\ ELEVEN_VOICE_ID = ""))) =>
        (~run.tts.called /\ run.error = "config")

\* C7: neither submit-scan nor regenerate calls the Text Generator while the
\* generation API key is absent or the model name is empty.
C7_NoGenerationWithoutCredentials ==
    (run.trigger \in {"submit", "regenerate"}
        /\ (OPENAI_API_KEY = "" \/ model_name = "")) =>
        ~run.gen.called

C10_ScanThenApprove ==
    [][ (/\ age = "first" /\ run.trigger = "submit" /\ GenSucceeded(run)
         /\ run'.trigger = "approve" /\ TtsSucceeded(run')) =>
            /\ session_state'.oracle_text = run.gen.value
            /\ run'.tts.text = run.gen.value
            /\ session_state'.audio_bytes = run'.tts.value
            /\ WorkflowState(session_state') = "Ready" ]_vars

\* C10 witness: the second script run of a session was a successful approve.
C10_Witness ==
    /\ age = "second"
    /\ run.trigger = "approve" /\ TtsSucceeded(run)
    /\ audio = run.tts.value

\* C11: every script run that makes a vendor call is all-or-nothing: when it
\* reports an error the session state is what it was before the run (in
\* particular regenerate has not replaced generatedText under audio of the
\* previous text), and when it reports none all of its updates are applied.
C11_TransitionsAllOrNothing ==
    [][ run'.trigger \in {"submit", "regenerate", "approve"} =>
            IF run'.error # "none"
            THEN /\ session_state'.oracle_text = session_state.oracle_text
                 /\ session_state'.audio_bytes = session_state.audio_bytes
                 /\ session_state'.scan_time = session_state.scan_time
            ELSE IF run'.trigger = "approve"
            THEN /\ session_state'.audio_bytes = run'.tts.value
                 /\ session_state'.oracle_text = session_state.oracle_text
            ELSE /\ session_state'.oracle_text = run'.gen.value
                 /\ session_state'.audio_bytes = None
                 /\ session_state'.scan_time \in ScanTimes ]_vars

C13_SynthesisTextNonEmpty ==
    /\ run.tts.called => Len(run.tts.text) > 0
    /\ run.trigger = "approve" => Len(generatedText) > 0

\* C13 witness: the synthesizer was called while the edited text was empty, so
\* the resolved text fell back to generatedText.
C13_Witness ==
    /\ run.trigger = "approve" /\ run.tts.called
    /\ HasEdited /\ Len(session_state[EDIT]) = 0
    /\ run.tts.text = generatedText

\* C14: a script run that switches audience mode on or off makes no vendor
\* call and leaves generatedText, editedText, audio and the scan duration as
\* they were.
C14_ViewToggleKeepsState ==
    [][ audience_mode' # audience_mode =>
            /\ ~run'.gen.called
            /\ ~run'.tts.called
            /\ session_state' = session_state ]_vars

\* C15: the participant fields change only in a submit-scan whose Text
\* Generator call succeeded, and regenerate sends the participant fields and
\* length held at that moment.
C15_ParticipantFixedUntilSuccessfulScan ==
    [][ /\ form' # form => (run'.trigger = "submit" /\ GenSucceeded(run'))
        /\ (run'.trigger = "regenerate" /\ run'.gen.called) =>
              /\ run'.gen.request.name = OrNotProvided(form.name)
              /\ run'.gen.request.occupation = OrNotProvided(form.occupation)
              /\ run'.gen.request.detail = OrNotProvided(form.detail)
              /\ run'.gen.request.birthday = OrNotProvided(form.birthday)
              /\ run'.gen.request.length = form.length ]_vars

\* C16: after a script run that reported an exception, triggering the same
\* action again with a vendor call that now succeeds completes without error.
C16_FailureIsRetryable ==
    [][ (/\ run.trigger \in {"submit", "regenerate", "approve"}
         /\ run.error = "exception"
         /\ run'.trigger = run.trigger
         /\ (GenSucceeded(run') \/ TtsSucceeded(run'))) =>
            run'.error = "none" ]_vars

\* C17: an approve-synthesize that directly follows a successful generation
\* (submit-scan or regenerate, no edit in between) sends the new generatedText
\* to the Speech Synthesizer.
C17_NoStaleEditAfterGeneration ==
    [][ (/\ run.trigger \in {"submit", "regenerate"} /\ GenSucceeded(run)
         /\ run'.trigger = "approve" /\ run'.tts.called) =>
            run'.tts.text = session_state.oracle_text ]_vars

\* C18: whenever audio is set, generatedText is non-empty.
C18_AudioImpliesText ==
    audio # None => Len(generatedText) > 0

====
